---- MODULE Spec2Model ----
(***************************************************************************)
(* Adaptive traffic-signal controller: one 4-way junction                  *)
(* (logic.py, TrafficSignalController) and the emergency override that     *)
(* wraps it by reference (emergency.py, EmergencyController).              *)
(*                                                                         *)
(* Python values are represented as follows.  None is the string NoneVal   *)
(* where the field otherwise holds a string, and the empty sequence where  *)
(* it otherwise holds a number (emergency_start_time is <<>> or <<e>>).    *)
(* proportional_time is a Python float; it is kept here as the exact       *)
(* fraction <<numerator, denominator>>.  For every total up to 3000 the    *)
(* double (v / total) * 80 truncates to the same integer as the exact      *)
(* quotient, so the fraction gives the value the interpreter computes.     *)
(***************************************************************************)
EXTENDS Integers, Sequences, FiniteSets, TLC

VARIABLES
    vehicles,              \* lanes[lane]['vehicles']
    current_lane,          \* TrafficSignalController.current_lane
    cycle_counter,         \* TrafficSignalController.cycle_counter
    emergency_active,      \* EmergencyController.emergency_active
    emergency_lane,        \* EmergencyController.emergency_lane
    emergency_type,        \* EmergencyController.emergency_type
    emergency_start_time,  \* EmergencyController.emergency_start_time
    override_duration,     \* EmergencyController.override_duration
    lastOp,                \* name of the operation that ran last
    ret,                   \* what that operation returned or raised
    advanceCalls,          \* advance_signal calls since construction / reset
    overridden,            \* an override was applied since construction / reset
    overrideInForce,       \* an applied override has not been cleared or replaced
    greenHist,             \* GREEN lane after each of the last <= 4 consecutive advances
    tick,                  \* clock of the caller that drives update_emergency_timer
    tickPure,              \* that caller has only ticked 1, 2, 3, ... since detection
    num_junctions,         \* MultiJunctionController.num_junctions
    junctions,             \* MultiJunctionController.junctions
    coordination_mode,     \* MultiJunctionController.coordination_mode
    ctorArg,               \* the num_junctions argument the registry was constructed with
    replacedType,          \* emergency_type in force when the last detection succeeded
    callBit,               \* flips at every advance_signal call of a caller that never stops
    pc,                    \* position of each of two concurrent advance_signal calls
    next_lane,             \* per call: the value get_next_lane returned, not yet stored
    counter_read,          \* per call: the cycle_counter it loaded, not yet stored
    start_state            \* <<current_lane, cycle_counter>> when the two calls began

ctlVars == <<vehicles, current_lane, cycle_counter>>
emVars == <<emergency_active, emergency_lane, emergency_type,
            emergency_start_time, override_duration>>
histVars == <<advanceCalls, overridden, overrideInForce, greenHist>>
tickVars == <<tick, tickPure>>
regVars == <<num_junctions, junctions, coordination_mode, ctorArg>>
ghostVars == <<replacedType, callBit>>
threadVars == <<pc, next_lane, counter_read, start_state>>
vars == <<vehicles, current_lane, cycle_counter, emergency_active,
          emergency_lane, emergency_type, emergency_start_time,
          override_duration, lastOp, ret, advanceCalls, overridden,
          overrideInForce, greenHist, tick, tickPure,
          num_junctions, junctions, coordination_mode, ctorArg,
          replacedType, callBit,
          pc, next_lane, counter_read, start_state>>

----------------------------------------------------------------------------
(* Bounds of the model *)

MaxCycle == 4

MaxCount == 6

MaxRegCycle == 1

----------------------------------------------------------------------------
(* Constants of the program *)

NoneVal == "None"

LaneKeys == <<"North", "South", "East", "West">>

Lanes == {LaneKeys[i] : i \in 1..Len(LaneKeys)}

lane_order == <<"North", "East", "South", "West">>

min_green_time == 10

max_green_time == 60

base_green_time == 20

EMERGENCY_TYPES ==
    [ambulance |-> [priority |-> 1, color |-> "#FF6B6B", duration |-> 30],
     fire_truck |-> [priority |-> 2, color |-> "#FF0000", duration |-> 40],
     police |-> [priority |-> 3, color |-> "#0066FF", duration |-> 25]]

InitialOverrideDuration == 30

junction_names == <<"Downtown", "Midtown", "Uptown", "Suburb">>

MinJunctions == 2

MaxJunctions == 4

DefaultJunctions == 2

HighTotal == 80

LowTotal == 20

----------------------------------------------------------------------------
(* Inputs the callers may pass *)

LaneInputs == Lanes \cup {"Center", ""}

TypeInputs == DOMAIN EMERGENCY_TYPES \cup {"taxi"}

CountInputs == {-1, 0, 2}

CountLaneInputs == {"North", "East", "Center"}

DemoCounts == {25, 95}

ThresholdCounts == {9, 10, 30, 31}

GreenCountInputs == (-1)..MaxCount \cup DemoCounts \cup ThresholdCounts

CongestionInputs == (-5)..100

TimerInputs == {25, 30, 40}

TickTimerInputs == (-1)..41

TickLaneInputs == {"East", "Center"}

Threads == {1, 2}

NumJunctionInputs == {1, 3, 6}

JunctionIdInputs == {0, 1, 5}

AdvanceIdInputs == {<<>>} \cup {<<id>> : id \in JunctionIdInputs}

RegLaneInputs == {"North", "Center"}

RegCountInputs == {-1, 19, 20, 80, 81}

----------------------------------------------------------------------------
(* Python helpers *)

Falsy(x) == x = NoneVal \/ x = ""

Max2(a, b) == IF a >= b THEN a ELSE b

Rat(n, d) == <<n, d>>

RatLess(a, b) == a[1] * b[2] < b[1] * a[2]

RatMin(a, b) == IF RatLess(b, a) THEN b ELSE a

RatMax(a, b) == IF RatLess(a, b) THEN b ELSE a

RatTrunc_Round(a) == (2 * a[1] + a[2]) \div (2 * a[2])

RatTrunc(a) == IF a[1] >= 0 THEN a[1] \div a[2] ELSE -((-a[1]) \div a[2])

RECURSIVE SumVehicles(_, _)
SumVehicles(veh, i) ==
    IF i = 0 THEN 0 ELSE SumVehicles(veh, i - 1) + veh[LaneKeys[i]]

TotalVehicles(veh) == SumVehicles(veh, Len(LaneKeys))

SeqIndex(s, x) == CHOOSE i \in 1..Len(s) : s[i] = x /\ \A j \in 1..(i - 1) : s[j] # x

InSeq(s, x) == \E i \in 1..Len(s) : s[i] = x

Min2(a, b) == IF a <= b THEN a ELSE b

Round1_Floor(a) == Rat((10 * a[1]) \div a[2], 10)

Round1(a) ==
    LET n == 10 * a[1]
        q == n \div a[2]
        r == n % a[2]
    IN Rat(IF 2 * r < a[2] THEN q
           ELSE IF 2 * r > a[2] THEN q + 1
           ELSE IF q % 2 = 0 THEN q ELSE q + 1, 10)

RECURSIVE SumOver(_, _)
SumOver(f, ids) ==
    IF ids = {} THEN 0
    ELSE LET i == CHOOSE x \in ids : TRUE
         IN f[i] + SumOver(f, ids \ {i})

FirstMax(f, keys) ==
    CHOOSE i \in 1..Len(keys) :
        /\ \A j \in 1..Len(keys) : f[keys[j]] <= f[keys[i]]
        /\ \A j \in 1..(i - 1) : f[keys[j]] < f[keys[i]]

----------------------------------------------------------------------------
(* TrafficSignalController: pure methods *)

calculate_congestion_level_Strict(vehicle_count) ==
    IF vehicle_count < 10 THEN "Low"
    ELSE IF vehicle_count < 30 THEN "Medium"
    ELSE "High"

calculate_congestion_level(vehicle_count) ==
    IF vehicle_count < 10 THEN "Low"
    ELSE IF vehicle_count <= 30 THEN "Medium"
    ELSE "High"

ClampGreenTime_NoMin(proportional_time) ==
    RatMin(proportional_time, Rat(max_green_time, 1))

ClampGreenTime(proportional_time) ==
    RatMax(Rat(min_green_time, 1),
           RatMin(proportional_time, Rat(max_green_time, 1)))

calculate_green_time_Others(vehicle_count, total_vehicles) ==
    IF total_vehicles = 0 THEN base_green_time
    ELSE RatTrunc(ClampGreenTime(
             Rat((total_vehicles - vehicle_count) * (base_green_time * 4),
                 total_vehicles)))

calculate_green_time(vehicle_count, total_vehicles) ==
    IF total_vehicles = 0 THEN base_green_time
    ELSE LET total_cycle_time == base_green_time * 4
             proportional_time ==
                 IF total_vehicles > 0
                 THEN Rat(vehicle_count * total_cycle_time, total_vehicles)
                 ELSE Rat(base_green_time, 1)
         IN RatTrunc(ClampGreenTime(proportional_time))

get_next_lane_DictOrder(lane) ==
    LaneKeys[(SeqIndex(LaneKeys, lane) % Len(LaneKeys)) + 1]

get_next_lane(lane) ==
    LET current_index == SeqIndex(lane_order, lane)
    IN lane_order[(current_index % Len(lane_order)) + 1]

LaneSignal(lane_name, lane) == IF lane_name = lane THEN "GREEN" ELSE "RED"

get_signal_state(veh, lane) ==
    LET total_vehicles == TotalVehicles(veh)
    IN [lane_name \in Lanes |->
           [vehicles |-> veh[lane_name],
            signal |-> LaneSignal(lane_name, lane),
            green_time |-> calculate_green_time(veh[lane_name], total_vehicles),
            congestion |-> calculate_congestion_level(veh[lane_name])]]

signal_state == get_signal_state(vehicles, current_lane)

----------------------------------------------------------------------------
(* EmergencyController: pure methods *)

TimerExpired_Strict(elapsed_seconds, duration) == elapsed_seconds > duration

TimerExpired(elapsed_seconds, duration) == elapsed_seconds >= duration

get_emergency_status ==
    [active |-> emergency_active,
     lane |-> emergency_lane,
     type |-> emergency_type,
     elapsed_time |-> emergency_start_time,
     override_duration |-> override_duration,
     time_remaining |->
         IF emergency_active
         THEN Max2(0, override_duration - emergency_start_time[1])
         ELSE 0]

----------------------------------------------------------------------------
(* TrafficSignalController as a value: the controller a junction holds *)

controller_set_vehicle_count_AnyLane(c, lane, count) ==
    [c EXCEPT !.vehicles =
        [l \in DOMAIN c.vehicles \cup {lane} |->
            IF l = lane THEN Max2(0, count) ELSE c.vehicles[l]]]

controller_set_vehicle_count(c, lane, count) ==
    IF lane \in Lanes
    THEN [c EXCEPT !.vehicles[lane] = Max2(0, count)]
    ELSE c

controller_advance_signal(c) ==
    [c EXCEPT !.current_lane = get_next_lane(c.current_lane),
              !.cycle_counter = c.cycle_counter + 1]

controller_reset(c) ==
    [c EXCEPT !.current_lane = "North",
              !.cycle_counter = 0,
              !.vehicles = [lane \in Lanes |-> 0]]

get_most_congested_lane_RotationOrder(veh) ==
    LET i == FirstMax(veh, lane_order)
    IN <<lane_order[i], veh[lane_order[i]]>>

get_most_congested_lane(veh) ==
    LET i == FirstMax(veh, LaneKeys)
    IN <<LaneKeys[i], veh[LaneKeys[i]]>>

get_statistics(c) ==
    LET total_vehicles == TotalVehicles(c.vehicles)
        most_congested == get_most_congested_lane(c.vehicles)
        avg_vehicles == Rat(total_vehicles, 4)
    IN [total_vehicles |-> total_vehicles,
        average_vehicles_per_lane |-> Round1(avg_vehicles),
        most_congested_lane |-> most_congested[1],
        max_vehicles |-> most_congested[2],
        current_green_lane |-> c.current_lane,
        cycle_number |-> c.cycle_counter]

statistics ==
    get_statistics([vehicles |-> vehicles,
                    current_lane |-> current_lane,
                    cycle_counter |-> cycle_counter])

----------------------------------------------------------------------------
(* MultiJunctionController: pure methods *)

ClampJunctions_NoFloor(n) == Min2(n, MaxJunctions)

ClampJunctions(n) == Max2(MinJunctions, Min2(n, MaxJunctions))

update_junction_stats(js, junction_id) ==
    [js EXCEPT ![junction_id].total_vehicles =
                   TotalVehicles(js[junction_id].controller.vehicles)]

AdvanceTargets_Truthy(js, junction_id) ==
    IF junction_id # <<>> /\ junction_id # <<0>>
    THEN IF junction_id[1] \in DOMAIN js THEN {junction_id[1]} ELSE {}
    ELSE DOMAIN js

AdvanceTargets(js, junction_id) ==
    IF junction_id # <<>>
    THEN IF junction_id[1] \in DOMAIN js THEN {junction_id[1]} ELSE {}
    ELSE DOMAIN js

get_all_junctions_state ==
    [junc_id \in DOMAIN junctions |->
        LET junction_data == junctions[junc_id]
            controller == junction_data.controller
        IN [name |-> junction_data.name,
            signal_state |-> get_signal_state(controller.vehicles,
                                              controller.current_lane),
            statistics |-> get_statistics(controller),
            total_vehicles |-> junction_data.total_vehicles,
            active |-> junction_data.active]]

MostCongestedJunction(all_state) ==
    CHOOSE j \in DOMAIN all_state :
        /\ \A k \in DOMAIN all_state :
               all_state[k].total_vehicles <= all_state[j].total_vehicles
        /\ \A k \in DOMAIN all_state :
               k < j => all_state[k].total_vehicles < all_state[j].total_vehicles

get_system_health ==
    LET all_state == get_all_junctions_state
        total_vehicles ==
            SumOver([j \in DOMAIN all_state |-> all_state[j].total_vehicles],
                    DOMAIN all_state)
        avg_congestion == Rat(total_vehicles, num_junctions * 25)
        efficiency ==
            RatMax(Rat(0, 1),
                   Rat(100 * avg_congestion[2] - 50 * avg_congestion[1],
                       avg_congestion[2]))
        most_congested_junc == MostCongestedJunction(all_state)
    IN [total_vehicles |-> total_vehicles,
        average_vehicles_per_junction |-> Rat(total_vehicles, num_junctions),
        system_efficiency |-> Round1(efficiency),
        coordination_mode |-> coordination_mode,
        most_congested_junction |-> most_congested_junc,
        most_congested_name |-> all_state[most_congested_junc].name,
        max_vehicles_any_junction |->
            all_state[most_congested_junc].total_vehicles,
        active_junctions |->
            Cardinality({j \in DOMAIN junctions : junctions[j].active})]

Recommendation_Inclusive(state) ==
    IF state.total_vehicles >= HighTotal
    THEN <<[type |-> "congestion",
            junction |-> state.name,
            message |-> <<"High congestion at ", state.name,
                          ". Consider traffic diversion.">>,
            severity |-> "high"]>>
    ELSE IF state.total_vehicles < LowTotal
    THEN <<[type |-> "underutilized",
            junction |-> state.name,
            message |-> <<"", state.name,
                          " has low traffic. Available for overflow.">>,
            severity |-> "low"]>>
    ELSE <<>>

Recommendation(state) ==
    IF state.total_vehicles > HighTotal
    THEN <<[type |-> "congestion",
            junction |-> state.name,
            message |-> <<"High congestion at ", state.name,
                          ". Consider traffic diversion.">>,
            severity |-> "high"]>>
    ELSE IF state.total_vehicles < LowTotal
    THEN <<[type |-> "underutilized",
            junction |-> state.name,
            message |-> <<"", state.name,
                          " has low traffic. Available for overflow.">>,
            severity |-> "low"]>>
    ELSE <<>>

RECURSIVE Recommendations(_, _)
Recommendations(all_state, n) ==
    IF n = 0 THEN <<>>
    ELSE Recommendations(all_state, n - 1) \o Recommendation(all_state[n - 1])

get_coordination_recommendations ==
    LET all_state == get_all_junctions_state
    IN Recommendations(all_state, Cardinality(DOMAIN all_state))

----------------------------------------------------------------------------
(* Construction *)

InitController ==
    /\ vehicles = [lane \in Lanes |-> 0]
    /\ current_lane = "North"
    /\ cycle_counter = 0
    /\ emergency_active = FALSE
    /\ emergency_lane = NoneVal
    /\ emergency_type = NoneVal
    /\ emergency_start_time = <<>>
    /\ override_duration = InitialOverrideDuration
    /\ lastOp = "__init__"
    /\ ret = "None"
    /\ advanceCalls = 0
    /\ overridden = FALSE
    /\ overrideInForce = FALSE
    /\ greenHist = <<>>
    /\ tick = 0
    /\ tickPure = FALSE
    /\ replacedType = NoneVal
    /\ callBit = FALSE
    /\ pc = [t \in Threads |-> "idle"]
    /\ next_lane = [t \in Threads |-> NoneVal]
    /\ counter_read = [t \in Threads |-> 0]
    /\ start_state = <<>>

TrafficSignalController ==
    [vehicles |-> [lane \in Lanes |-> 0],
     current_lane |-> "North",
     cycle_counter |-> 0]

MultiJunctionController(n) ==
    /\ ctorArg = n
    /\ num_junctions = ClampJunctions(n)
    /\ junctions = [i \in 0..(ClampJunctions(n) - 1) |->
                       [name |-> junction_names[i + 1],
                        controller |-> TrafficSignalController,
                        total_vehicles |-> 0,
                        efficiency_score |-> 0,
                        active |-> TRUE]]
    /\ coordination_mode = "independent"

Init == InitController /\ MultiJunctionController(DefaultJunctions)

InitRegistry ==
    InitController /\ \E n \in NumJunctionInputs : MultiJunctionController(n)

----------------------------------------------------------------------------
(* TrafficSignalController: operations *)

SetVehicleCount_NoClamp(lane, count) ==
    /\ vehicles' = IF lane \in Lanes
                   THEN [vehicles EXCEPT ![lane] = count]
                   ELSE vehicles
    /\ lastOp' = "set_vehicle_count"
    /\ ret' = "None"
    /\ UNCHANGED <<current_lane, cycle_counter>>
    /\ UNCHANGED emVars
    /\ UNCHANGED histVars
    /\ UNCHANGED tickVars
    /\ UNCHANGED regVars
    /\ UNCHANGED ghostVars
    /\ UNCHANGED threadVars

SetVehicleCount(lane, count) ==
    /\ vehicles' = IF lane \in Lanes
                   THEN [vehicles EXCEPT ![lane] = Max2(0, count)]
                   ELSE vehicles
    /\ lastOp' = "set_vehicle_count"
    /\ ret' = "None"
    /\ UNCHANGED <<current_lane, cycle_counter>>
    /\ UNCHANGED emVars
    /\ UNCHANGED histVars
    /\ UNCHANGED tickVars
    /\ UNCHANGED regVars
    /\ UNCHANGED ghostVars
    /\ UNCHANGED threadVars

\* get_next_lane raises ValueError when current_lane is not in lane_order;
\* the exception leaves advance_signal before either assignment.
AdvanceSignal ==
    /\ advanceCalls < MaxCycle
    /\ advanceCalls' = advanceCalls + 1
    /\ lastOp' = "advance_signal"
    /\ IF InSeq(lane_order, current_lane)
       THEN /\ current_lane' = get_next_lane(current_lane)
            /\ cycle_counter' = cycle_counter + 1
            /\ ret' = "state"
            /\ greenHist' = IF Len(greenHist) < Len(lane_order)
                            THEN Append(greenHist, current_lane')
                            ELSE Append(Tail(greenHist), current_lane')
       ELSE /\ ret' = "ValueError"
            /\ UNCHANGED <<current_lane, cycle_counter, greenHist>>
    /\ UNCHANGED <<vehicles, overridden, overrideInForce>>
    /\ UNCHANGED emVars
    /\ UNCHANGED tickVars
    /\ UNCHANGED regVars
    /\ UNCHANGED ghostVars
    /\ UNCHANGED threadVars

GetSignalState ==
    /\ lastOp' = "get_signal_state"
    /\ ret' = "state"
    /\ UNCHANGED ctlVars
    /\ UNCHANGED emVars
    /\ UNCHANGED histVars
    /\ UNCHANGED tickVars
    /\ UNCHANGED regVars
    /\ UNCHANGED ghostVars
    /\ UNCHANGED threadVars

GetStatistics ==
    /\ lastOp' = "get_statistics"
    /\ ret' = "statistics"
    /\ UNCHANGED ctlVars
    /\ UNCHANGED emVars
    /\ UNCHANGED histVars
    /\ UNCHANGED tickVars
    /\ UNCHANGED regVars
    /\ UNCHANGED ghostVars
    /\ UNCHANGED threadVars

Reset_KeepsLane ==
    /\ cycle_counter' = 0
    /\ vehicles' = [lane \in Lanes |-> 0]
    /\ lastOp' = "reset"
    /\ ret' = "None"
    /\ advanceCalls' = 0
    /\ overridden' = FALSE
    /\ greenHist' = <<>>
    /\ UNCHANGED <<current_lane, overrideInForce>>
    /\ UNCHANGED emVars
    /\ UNCHANGED tickVars
    /\ UNCHANGED regVars
    /\ UNCHANGED ghostVars
    /\ UNCHANGED threadVars

Reset ==
    /\ current_lane' = "North"
    /\ cycle_counter' = 0
    /\ vehicles' = [lane \in Lanes |-> 0]
    /\ lastOp' = "reset"
    /\ ret' = "None"
    /\ advanceCalls' = 0
    /\ overridden' = FALSE
    /\ greenHist' = <<>>
    /\ UNCHANGED overrideInForce
    /\ UNCHANGED emVars
    /\ UNCHANGED tickVars
    /\ UNCHANGED regVars
    /\ UNCHANGED ghostVars
    /\ UNCHANGED threadVars

----------------------------------------------------------------------------
(* EmergencyController: operations *)

detect_emergency_vehicle_FixedDuration(lane, vehicle_type) ==
    IF vehicle_type \notin DOMAIN EMERGENCY_TYPES
    THEN /\ ret' = "False"
         /\ UNCHANGED emVars
    ELSE /\ emergency_active' = TRUE
         /\ emergency_lane' = lane
         /\ emergency_type' = vehicle_type
         /\ emergency_start_time' = <<0>>
         /\ UNCHANGED override_duration
         /\ ret' = "True"

detect_emergency_vehicle_PriorityKept(lane, vehicle_type) ==
    IF \/ vehicle_type \notin DOMAIN EMERGENCY_TYPES
       \/ (/\ emergency_active
           /\ emergency_type \in DOMAIN EMERGENCY_TYPES
           /\ EMERGENCY_TYPES[emergency_type].priority <
                  EMERGENCY_TYPES[vehicle_type].priority)
    THEN /\ ret' = "False"
         /\ UNCHANGED emVars
    ELSE /\ emergency_active' = TRUE
         /\ emergency_lane' = lane
         /\ emergency_type' = vehicle_type
         /\ emergency_start_time' = <<0>>
         /\ override_duration' = EMERGENCY_TYPES[vehicle_type].duration
         /\ ret' = "True"

detect_emergency_vehicle_LateCheck(lane, vehicle_type) ==
    /\ emergency_active' = TRUE
    /\ emergency_lane' = lane
    /\ emergency_type' = vehicle_type
    /\ emergency_start_time' = <<0>>
    /\ IF vehicle_type \notin DOMAIN EMERGENCY_TYPES
       THEN /\ ret' = "False"
            /\ UNCHANGED override_duration
       ELSE /\ override_duration' = EMERGENCY_TYPES[vehicle_type].duration
            /\ ret' = "True"

detect_emergency_vehicle(lane, vehicle_type) ==
    IF vehicle_type \notin DOMAIN EMERGENCY_TYPES
    THEN /\ ret' = "False"
         /\ UNCHANGED emVars
    ELSE /\ emergency_active' = TRUE
         /\ emergency_lane' = lane
         /\ emergency_type' = vehicle_type
         /\ emergency_start_time' = <<0>>
         /\ override_duration' = EMERGENCY_TYPES[vehicle_type].duration
         /\ ret' = "True"

DetectEmergencyVehicle(lane, vehicle_type) ==
    /\ lastOp' = "detect_emergency_vehicle"
    /\ detect_emergency_vehicle(lane, vehicle_type)
    /\ overrideInForce' = (overrideInForce /\ ret' = "False")
    /\ UNCHANGED ctlVars
    /\ UNCHANGED <<advanceCalls, overridden, greenHist>>
    /\ UNCHANGED tickVars
    /\ UNCHANGED regVars
    /\ UNCHANGED ghostVars
    /\ UNCHANGED threadVars

OverrideSignalForEmergency ==
    /\ lastOp' = "override_signal_for_emergency"
    /\ IF ~emergency_active \/ Falsy(emergency_lane)
       THEN /\ ret' = "None"
            /\ UNCHANGED current_lane
            /\ UNCHANGED <<overridden, overrideInForce, greenHist>>
       ELSE /\ current_lane' = emergency_lane
            /\ ret' = "state"
            /\ overridden' = TRUE
            /\ overrideInForce' = TRUE
            /\ greenHist' = <<>>
    /\ UNCHANGED <<vehicles, cycle_counter, advanceCalls>>
    /\ UNCHANGED emVars
    /\ UNCHANGED tickVars
    /\ UNCHANGED regVars
    /\ UNCHANGED ghostVars
    /\ UNCHANGED threadVars

clear_emergency ==
    /\ emergency_active' = FALSE
    /\ emergency_lane' = NoneVal
    /\ emergency_type' = NoneVal
    /\ emergency_start_time' = <<>>
    /\ UNCHANGED override_duration

update_emergency_timer_NoExpiry(elapsed_seconds) ==
    IF emergency_active
    THEN /\ emergency_start_time' = <<elapsed_seconds>>
         /\ UNCHANGED <<emergency_active, emergency_lane,
                        emergency_type, override_duration>>
    ELSE UNCHANGED emVars

update_emergency_timer(elapsed_seconds) ==
    IF emergency_active
    THEN IF TimerExpired(elapsed_seconds, override_duration)
         THEN clear_emergency
         ELSE /\ emergency_start_time' = <<elapsed_seconds>>
              /\ UNCHANGED <<emergency_active, emergency_lane,
                             emergency_type, override_duration>>
    ELSE UNCHANGED emVars

UpdateEmergencyTimer(elapsed_seconds) ==
    /\ lastOp' = "update_emergency_timer"
    /\ ret' = "None"
    /\ update_emergency_timer(elapsed_seconds)
    /\ overrideInForce' = (overrideInForce /\ emergency_active')
    /\ UNCHANGED ctlVars
    /\ UNCHANGED <<advanceCalls, overridden, greenHist>>
    /\ UNCHANGED tickVars
    /\ UNCHANGED regVars
    /\ UNCHANGED ghostVars
    /\ UNCHANGED threadVars

ClearEmergency ==
    /\ lastOp' = "clear_emergency"
    /\ ret' = "None"
    /\ clear_emergency
    /\ overrideInForce' = FALSE
    /\ UNCHANGED ctlVars
    /\ UNCHANGED <<advanceCalls, overridden, greenHist>>
    /\ UNCHANGED tickVars
    /\ UNCHANGED regVars
    /\ UNCHANGED ghostVars
    /\ UNCHANGED threadVars

GetEmergencyStatus ==
    /\ lastOp' = "get_emergency_status"
    /\ ret' = "status"
    /\ UNCHANGED ctlVars
    /\ UNCHANGED emVars
    /\ UNCHANGED histVars
    /\ UNCHANGED tickVars
    /\ UNCHANGED regVars
    /\ UNCHANGED ghostVars
    /\ UNCHANGED threadVars

----------------------------------------------------------------------------
(* One junction with its emergency override, any caller *)

Next ==
    \/ \E lane \in CountLaneInputs, count \in CountInputs :
           SetVehicleCount(lane, count)
    \/ AdvanceSignal
    \/ GetSignalState
    \/ GetStatistics
    \/ Reset
    \/ \E lane \in LaneInputs, vehicle_type \in TypeInputs :
           DetectEmergencyVehicle(lane, vehicle_type)
    \/ OverrideSignalForEmergency
    \/ \E elapsed_seconds \in TimerInputs : UpdateEmergencyTimer(elapsed_seconds)
    \/ ClearEmergency
    \/ GetEmergencyStatus

Spec == Init /\ [][Next]_vars

----------------------------------------------------------------------------
(* One controller whose lanes are loaded with every count up to MaxCount   *)
(* and with the counts of the balanced and extreme scenarios of demo.py    *)

NextGreen ==
    \/ \E lane \in Lanes, count \in GreenCountInputs :
           SetVehicleCount(lane, count)
    \/ GetSignalState
    \/ GetStatistics

SpecGreen == Init /\ [][NextGreen]_vars

----------------------------------------------------------------------------
(* An override driven by a caller's clock: after a detection the caller    *)
(* calls update_emergency_timer(1), (2), (3), ... once per second; other   *)
(* callers may pass the timer any value in between.                        *)

TickDetect(lane, vehicle_type) ==
    /\ ~emergency_active
    /\ lastOp' = "detect_emergency_vehicle"
    /\ detect_emergency_vehicle(lane, vehicle_type)
    /\ tick' = 0
    /\ tickPure' = (ret' = "True")
    /\ UNCHANGED ctlVars
    /\ UNCHANGED histVars
    /\ UNCHANGED regVars
    /\ UNCHANGED ghostVars
    /\ UNCHANGED threadVars

Tick ==
    /\ emergency_active
    /\ tick' = tick + 1
    /\ lastOp' = "update_emergency_timer"
    /\ ret' = "None"
    /\ update_emergency_timer(tick + 1)
    /\ UNCHANGED tickPure
    /\ UNCHANGED ctlVars
    /\ UNCHANGED histVars
    /\ UNCHANGED regVars
    /\ UNCHANGED ghostVars
    /\ UNCHANGED threadVars

TickProbe(elapsed_seconds) ==
    /\ emergency_active
    /\ lastOp' = "update_emergency_timer"
    /\ ret' = "None"
    /\ update_emergency_timer(elapsed_seconds)
    /\ tickPure' = FALSE
    /\ UNCHANGED tick
    /\ UNCHANGED ctlVars
    /\ UNCHANGED histVars
    /\ UNCHANGED regVars
    /\ UNCHANGED ghostVars
    /\ UNCHANGED threadVars

NextTick ==
    \/ \E lane \in TickLaneInputs, vehicle_type \in TypeInputs :
           TickDetect(lane, vehicle_type)
    \/ Tick
    \/ \E elapsed_seconds \in TickTimerInputs : TickProbe(elapsed_seconds)

SpecTick == Init /\ [][NextTick]_vars /\ WF_vars(Tick)

----------------------------------------------------------------------------
(* MultiJunctionController: operations *)

RegSetVehicleCount(junction_id, lane, count) ==
    /\ junctions' =
           IF junction_id \in DOMAIN junctions
           THEN update_junction_stats(
                    [junctions EXCEPT ![junction_id].controller =
                         controller_set_vehicle_count(@, lane, count)],
                    junction_id)
           ELSE junctions
    /\ lastOp' = "registry.set_vehicle_count"
    /\ ret' = "None"
    /\ UNCHANGED <<num_junctions, coordination_mode, ctorArg>>
    /\ UNCHANGED <<ctlVars, emVars, histVars, tickVars>>
    /\ UNCHANGED ghostVars
    /\ UNCHANGED threadVars

RegAdvanceSignal(junction_id) ==
    /\ \A j \in AdvanceTargets(junctions, junction_id) :
           junctions[j].controller.cycle_counter < MaxRegCycle
    /\ junctions' =
           [j \in DOMAIN junctions |->
               IF j \in AdvanceTargets(junctions, junction_id)
               THEN [junctions[j] EXCEPT
                        !.controller = controller_advance_signal(@)]
               ELSE junctions[j]]
    /\ lastOp' = "registry.advance_signal"
    /\ ret' = "None"
    /\ UNCHANGED <<num_junctions, coordination_mode, ctorArg>>
    /\ UNCHANGED <<ctlVars, emVars, histVars, tickVars>>
    /\ UNCHANGED ghostVars
    /\ UNCHANGED threadVars

ResetAll ==
    /\ junctions' =
           [j \in DOMAIN junctions |->
               [junctions[j] EXCEPT !.controller = controller_reset(@)]]
    /\ lastOp' = "registry.reset_all"
    /\ ret' = "None"
    /\ UNCHANGED <<num_junctions, coordination_mode, ctorArg>>
    /\ UNCHANGED <<ctlVars, emVars, histVars, tickVars>>
    /\ UNCHANGED ghostVars
    /\ UNCHANGED threadVars

ToggleJunction(junction_id) ==
    /\ junctions' =
           IF junction_id \in DOMAIN junctions
           THEN [junctions EXCEPT ![junction_id].active = ~@]
           ELSE junctions
    /\ lastOp' = "registry.toggle_junction"
    /\ ret' = "None"
    /\ UNCHANGED <<num_junctions, coordination_mode, ctorArg>>
    /\ UNCHANGED <<ctlVars, emVars, histVars, tickVars>>
    /\ UNCHANGED ghostVars
    /\ UNCHANGED threadVars

GetAllJunctionsState ==
    /\ lastOp' = "registry.get_all_junctions_state"
    /\ ret' = "all_state"
    /\ UNCHANGED regVars
    /\ UNCHANGED ghostVars
    /\ UNCHANGED threadVars
    /\ UNCHANGED <<ctlVars, emVars, histVars, tickVars>>
    /\ UNCHANGED ghostVars
    /\ UNCHANGED threadVars

GetSystemHealth_Refreshing ==
    /\ junctions' =
           [j \in DOMAIN junctions |->
               [junctions[j] EXCEPT !.total_vehicles =
                    TotalVehicles(junctions[j].controller.vehicles)]]
    /\ lastOp' = "registry.get_system_health"
    /\ ret' = "health"
    /\ UNCHANGED <<num_junctions, coordination_mode, ctorArg>>
    /\ UNCHANGED <<ctlVars, emVars, histVars, tickVars>>
    /\ UNCHANGED ghostVars
    /\ UNCHANGED threadVars

GetSystemHealth ==
    /\ lastOp' = "registry.get_system_health"
    /\ ret' = "health"
    /\ UNCHANGED regVars
    /\ UNCHANGED ghostVars
    /\ UNCHANGED threadVars
    /\ UNCHANGED <<ctlVars, emVars, histVars, tickVars>>
    /\ UNCHANGED ghostVars
    /\ UNCHANGED threadVars

GetCoordinationRecommendations ==
    /\ lastOp' = "registry.get_coordination_recommendations"
    /\ ret' = "recommendations"
    /\ UNCHANGED regVars
    /\ UNCHANGED ghostVars
    /\ UNCHANGED threadVars
    /\ UNCHANGED <<ctlVars, emVars, histVars, tickVars>>
    /\ UNCHANGED ghostVars
    /\ UNCHANGED threadVars

----------------------------------------------------------------------------
(* A registry of 2 to 4 junctions driven through its own methods, next to   *)
(* a stand-alone controller that is handed valid and unknown lane names     *)

NextRegistry ==
    \/ \E junction_id \in JunctionIdInputs, lane \in RegLaneInputs,
          count \in RegCountInputs :
           RegSetVehicleCount(junction_id, lane, count)
    \/ \E junction_id \in AdvanceIdInputs : RegAdvanceSignal(junction_id)
    \/ ResetAll
    \/ \E junction_id \in JunctionIdInputs : ToggleJunction(junction_id)
    \/ GetAllJunctionsState
    \/ GetSystemHealth
    \/ GetCoordinationRecommendations
    \/ \E lane \in RegLaneInputs, count \in CountInputs :
           SetVehicleCount(lane, count)

SpecRegistry == InitRegistry /\ [][NextRegistry]_vars

----------------------------------------------------------------------------
(* Detections arriving one after another on one override, with the type     *)
(* that each successful detection found in force kept on record             *)

ReplaceDetect(lane, vehicle_type) ==
    /\ lastOp' = "detect_emergency_vehicle"
    /\ detect_emergency_vehicle(lane, vehicle_type)
    /\ replacedType' = IF ret' = "True" /\ emergency_active
                       THEN emergency_type
                       ELSE NoneVal
    /\ overrideInForce' = (overrideInForce /\ ret' = "False")
    /\ UNCHANGED ctlVars
    /\ UNCHANGED <<advanceCalls, overridden, greenHist>>
    /\ UNCHANGED tickVars
    /\ UNCHANGED regVars
    /\ UNCHANGED callBit
    /\ UNCHANGED threadVars

NextReplace ==
    \/ \E lane \in LaneInputs, vehicle_type \in TypeInputs :
           ReplaceDetect(lane, vehicle_type)
    \/ OverrideSignalForEmergency
    \/ \E elapsed_seconds \in TimerInputs : UpdateEmergencyTimer(elapsed_seconds)
    \/ ClearEmergency

SpecReplace == Init /\ [][NextReplace]_vars

----------------------------------------------------------------------------
(* A caller that never stops calling advance_signal, with detections,       *)
(* overrides and clears in between.  A call that raises ValueError changes  *)
(* no field, so it can be repeated for ever; calls that go through are      *)
(* limited by MaxCycle.                                                     *)

AdvanceCall ==
    /\ lastOp' = "advance_signal"
    /\ callBit' = ~callBit
    /\ IF InSeq(lane_order, current_lane)
       THEN /\ cycle_counter < MaxCycle
            /\ current_lane' = get_next_lane(current_lane)
            /\ cycle_counter' = cycle_counter + 1
            /\ ret' = "state"
       ELSE /\ ret' = "ValueError"
            /\ UNCHANGED <<current_lane, cycle_counter>>
    /\ UNCHANGED vehicles
    /\ UNCHANGED emVars
    /\ UNCHANGED histVars
    /\ UNCHANGED tickVars
    /\ UNCHANGED regVars
    /\ UNCHANGED replacedType
    /\ UNCHANGED threadVars

NextStarve ==
    \/ AdvanceCall
    \/ \E lane \in LaneInputs, vehicle_type \in TypeInputs :
           DetectEmergencyVehicle(lane, vehicle_type)
    \/ OverrideSignalForEmergency
    \/ ClearEmergency

SpecStarve == Init /\ [][NextStarve]_vars /\ WF_vars(AdvanceCall)

----------------------------------------------------------------------------
(* Every read of the three classes, called between a few mutations of the   *)
(* controller, of its override and of a default registry                    *)

ReadLaneInputs == {"East"}

ReadTypeInputs == {"fire_truck", "taxi"}

ReadJunctionIdInputs == {0, 5}

ReadCountInputs == {19, 81}

ReadTimerInputs == {40}

NextReads ==
    \/ GetSignalState
    \/ GetStatistics
    \/ GetEmergencyStatus
    \/ GetAllJunctionsState
    \/ GetSystemHealth
    \/ GetCoordinationRecommendations
    \/ \E lane \in ReadLaneInputs, count \in CountInputs :
           SetVehicleCount(lane, count)
    \/ \E lane \in ReadLaneInputs, vehicle_type \in ReadTypeInputs :
           DetectEmergencyVehicle(lane, vehicle_type)
    \/ OverrideSignalForEmergency
    \/ \E elapsed_seconds \in ReadTimerInputs :
           UpdateEmergencyTimer(elapsed_seconds)
    \/ \E junction_id \in ReadJunctionIdInputs, count \in ReadCountInputs :
           RegSetVehicleCount(junction_id, "North", count)
    \/ \E junction_id \in ReadJunctionIdInputs : ToggleJunction(junction_id)
    \/ ResetAll

SpecReads == Init /\ [][NextReads]_vars

----------------------------------------------------------------------------
(* Properties *)

GreenLanes == {lane \in Lanes : signal_state[lane].signal = "GREEN"}

RedLanes == {lane \in Lanes : signal_state[lane].signal = "RED"}

\* C1: in every reachable state get_signal_state reports exactly one lane
\* GREEN and the other three RED.
C1_ExactlyOneGreen ==
    /\ Cardinality(GreenLanes) = 1
    /\ Cardinality(RedLanes) = 3

\* C2: while no override has been applied since construction or reset, the
\* GREEN lane after k advance_signal calls is element k mod 4 of North, East,
\* South, West, cycle_counter is k, and the GREEN lanes of any 4 consecutive
\* advance_signal calls are the four lanes, each once.
C2_Rotation ==
    ~overridden =>
        /\ cycle_counter = advanceCalls
        /\ current_lane = lane_order[(advanceCalls % 4) + 1]
        /\ \A i \in 1..Len(greenHist) :
               greenHist[i] =
                   lane_order[((advanceCalls - Len(greenHist) + i) % 4) + 1]
        /\ Len(greenHist) = 4 =>
               /\ {greenHist[i] : i \in 1..4} = {"North", "East", "South", "West"}
               /\ \A i, j \in 1..4 : greenHist[i] = greenHist[j] => i = j

C2_Witness ==
    /\ ~overridden
    /\ lastOp = "advance_signal"
    /\ advanceCalls = 4
    /\ greenHist = <<"East", "South", "West", "North">>

\* C3: for every assignment of non-negative counts to the four lanes, the
\* green time get_signal_state reports for each lane is an integer in 10..60.
C3_GreenTimeInRange ==
    \A lane \in Lanes :
        /\ vehicles[lane] >= 0
        /\ signal_state[lane].green_time \in Int
        /\ 10 <= signal_state[lane].green_time
        /\ signal_state[lane].green_time <= 60

C3_Witness ==
    /\ lastOp = "get_signal_state"
    /\ vehicles["North"] = MaxCount
    /\ vehicles["East"] = 1
    /\ signal_state["North"].green_time = 60
    /\ signal_state["East"].green_time = 10
    /\ signal_state["South"].green_time = 10

FloorClamp(v, total) ==
    LET q == (80 * v) \div total
        lo == IF q < 10 THEN 10 ELSE q
    IN IF lo > 60 THEN 60 ELSE lo

\* C4: calculate_green_time(v, total) is 20 when total = 0 and otherwise
\* min(60, max(10, floor(80 * v / total))) for all 0 <= v <= total; when the
\* four lanes hold the same count every lane's green time is 20.
C4_GreenTimeFormula ==
    LET total == TotalVehicles(vehicles)
    IN /\ \A v \in 0..total :
              calculate_green_time(v, total) =
                  IF total = 0 THEN 20 ELSE FloorClamp(v, total)
       /\ \A lane \in Lanes :
              signal_state[lane].green_time =
                  IF total = 0 THEN 20 ELSE FloorClamp(vehicles[lane], total)
       /\ (\A a, b \in Lanes : vehicles[a] = vehicles[b]) =>
              \A lane \in Lanes : signal_state[lane].green_time = 20

C4_Witness ==
    /\ lastOp = "get_signal_state"
    /\ vehicles = [lane \in Lanes |-> IF lane = "West" THEN 0 ELSE 2]
    /\ signal_state["North"].green_time = 26
    /\ signal_state["West"].green_time = 10

\* C5: within one signal state with total_vehicles > 0, a lane with strictly
\* more vehicles than another has at least the other's green time.
C5_Monotone ==
    TotalVehicles(vehicles) > 0 =>
        \A a, b \in Lanes :
            vehicles[a] > vehicles[b] =>
                signal_state[a].green_time >= signal_state[b].green_time

C5_Witness ==
    /\ lastOp = "get_signal_state"
    /\ vehicles["North"] > vehicles["East"]
    /\ signal_state["North"].green_time > signal_state["East"].green_time
    /\ vehicles["South"] > vehicles["West"]
    /\ signal_state["South"].green_time = signal_state["West"].green_time

\* C6: from the moment an override is applied until it is cleared (by expiry
\* or by clear_emergency), the emergency lane is the controller's GREEN lane,
\* whatever advance_signal, set_vehicle_count or reset calls come in between.
C6_EmergencyLaneHeld ==
    overrideInForce =>
        /\ emergency_active
        /\ current_lane = emergency_lane

\* C7: override_signal_for_emergency on an active override sets current_lane
\* to the emergency lane and leaves cycle_counter and every vehicle count as
\* they were; on an inactive override it returns None and changes neither
\* the controller nor the override.
C7_OverrideFrame ==
    [][OverrideSignalForEmergency =>
          IF emergency_active
          THEN /\ current_lane' = emergency_lane
               /\ UNCHANGED <<vehicles, cycle_counter>>
          ELSE /\ ret' = "None"
               /\ UNCHANGED ctlVars
               /\ UNCHANGED emVars]_vars

ClaimedDuration(vehicle_type) ==
    CASE vehicle_type = "ambulance" -> 30
      [] vehicle_type = "fire_truck" -> 40
      [] vehicle_type = "police" -> 25

TimerStep(elapsed_seconds) ==
    /\ lastOp' = "update_emergency_timer"
    /\ update_emergency_timer(elapsed_seconds)

\* C8: an active override of type T stays active after
\* update_emergency_timer(e) for every e < duration(T) and is cleared for
\* every e >= duration(T); under a caller that ticks e = 1, 2, 3, ... every
\* detected override eventually becomes inactive, at tick duration(T)
\* (ambulance 30, fire_truck 40, police 25) and not before.
C8_TimerExpiry ==
    /\ [][\A e \in TickTimerInputs :
             (emergency_active /\ TimerStep(e)) =>
                 (emergency_active' <=> e < ClaimedDuration(emergency_type))]_vars
    /\ [][(tickPure /\ tickPure' /\ emergency_active /\ ~emergency_active') =>
             tick' = ClaimedDuration(emergency_type)]_vars
    /\ [](tickPure /\ emergency_active =>
             tick < ClaimedDuration(emergency_type))
    /\ (emergency_active ~> ~emergency_active)

C8_Witness ==
    /\ lastOp = "update_emergency_timer"
    /\ tickPure
    /\ ~emergency_active
    /\ override_duration = 25
    /\ tick = 25

\* C9: while active, elapsed <= override_duration and get_emergency_status
\* reports time_remaining = override_duration - elapsed; while inactive it
\* reports 0; right after a successful detection time_remaining is the
\* duration of the detected type.
C9_Remaining ==
    /\ emergency_active =>
           /\ emergency_start_time[1] <= override_duration
           /\ get_emergency_status.time_remaining =
                  override_duration - emergency_start_time[1]
    /\ ~emergency_active => get_emergency_status.time_remaining = 0
    /\ (lastOp = "detect_emergency_vehicle" /\ ret = "True") =>
           get_emergency_status.time_remaining = ClaimedDuration(emergency_type)

C9_Witness ==
    /\ lastOp = "update_emergency_timer"
    /\ emergency_active
    /\ emergency_type = "fire_truck"
    /\ emergency_start_time = <<30>>
    /\ get_emergency_status.time_remaining = 10

\* C10: cycle_counter equals the number of advance_signal calls made since
\* construction or the last reset.
C10_CycleCountsAdvances == cycle_counter = advanceCalls

\* C11: reset() called in any reachable controller state (any counts, any
\* current_lane including one forced by an override, any cycle_counter)
\* yields the construction-time state: all counts 0, current_lane North,
\* cycle_counter 0.
C11_ResetRestores ==
    lastOp = "reset" =>
        /\ \A lane \in {"North", "South", "East", "West"} : vehicles[lane] = 0
        /\ DOMAIN vehicles = {"North", "South", "East", "West"}
        /\ current_lane = "North"
        /\ cycle_counter = 0

C11_Witness ==
    /\ lastOp = "reset"
    /\ overrideInForce
    /\ emergency_lane = "Center"
    /\ current_lane = "North"

\* C12: set_vehicle_count(lane, count) with a valid lane stores max(0, count)
\* for that lane and leaves the other three counts, current_lane and
\* cycle_counter as they were; so every count is >= 0 in every reachable
\* state.
C12_SetVehicleCountFrame ==
    /\ [][\A lane \in {"North", "South", "East", "West"},
             count \in GreenCountInputs :
             SetVehicleCount(lane, count) =>
                 /\ vehicles'[lane] = IF count < 0 THEN 0 ELSE count
                 /\ \A other \in Lanes \ {lane} :
                        vehicles'[other] = vehicles[other]
                 /\ current_lane' = current_lane
                 /\ cycle_counter' = cycle_counter]_vars
    /\ [](\A lane \in Lanes : vehicles[lane] >= 0)

C12_Witness ==
    /\ lastOp = "set_vehicle_count"
    /\ vehicles["North"] = 95
    /\ vehicles["South"] = 0
    /\ vehicles["East"] = 25
    /\ vehicles["West"] = MaxCount

\* C14: detect_emergency_vehicle with a vehicle type outside ambulance,
\* fire_truck, police returns False and leaves the override fields and the
\* wrapped controller unchanged, whether or not an override is active.
C14_UnknownTypeRejected ==
    [][\A lane \in LaneInputs,
          vehicle_type \in TypeInputs \ {"ambulance", "fire_truck", "police"} :
          DetectEmergencyVehicle(lane, vehicle_type) =>
              /\ ret' = "False"
              /\ emergency_active' = emergency_active
              /\ emergency_lane' = emergency_lane
              /\ emergency_type' = emergency_type
              /\ emergency_start_time' = emergency_start_time
              /\ override_duration' = override_duration
              /\ vehicles' = vehicles
              /\ current_lane' = current_lane
              /\ cycle_counter' = cycle_counter]_vars

C14_Witness ==
    /\ lastOp = "detect_emergency_vehicle"
    /\ ret = "False"
    /\ emergency_active
    /\ emergency_type = "police"
    /\ overrideInForce

\* C15: an unknown lane name passed to detect_emergency_vehicle is rejected
\* and changes nothing: the override does not become active on it, and
\* current_lane never leaves North, East, South, West, so advance_signal is
\* defined in every reachable state.
C15_UnknownLaneRejected ==
    /\ emergency_active => emergency_lane \in {"North", "East", "South", "West"}
    /\ current_lane \in {"North", "East", "South", "West"}
    /\ ret # "ValueError"

\* C16: clear_emergency, reached by timer expiry or called directly, puts
\* active, lane, type, elapsed time and override duration back to their
\* construction-time values, and a second call changes nothing.
C16_ClearRestores ==
    (~emergency_active /\ lastOp \in {"clear_emergency", "update_emergency_timer"}) =>
        /\ emergency_lane = "None"
        /\ emergency_type = "None"
        /\ emergency_start_time = <<>>
        /\ override_duration = 30

(* C13: an invalid call changes nothing.  set_vehicle_count with a lane     *)
(* name outside the four lanes, on a stand-alone controller or on the       *)
(* controller of a junction, changes no vehicle count, no current_lane and  *)
(* no cycle_counter; set_vehicle_count and advance_signal with an unknown   *)
(* junction id on the registry change no junction at all, the cached        *)
(* total_vehicles included.                                                 *)
C13_InvalidCallNoOp ==
    [][/\ \A lane \in RegLaneInputs \ {"North", "South", "East", "West"},
             count \in CountInputs :
              SetVehicleCount(lane, count) =>
                  /\ vehicles' = vehicles
                  /\ current_lane' = current_lane
                  /\ cycle_counter' = cycle_counter
                  /\ junctions' = junctions
       /\ \A junction_id \in JunctionIdInputs,
             lane \in RegLaneInputs \ {"North", "South", "East", "West"},
             count \in RegCountInputs :
              (/\ junction_id \in 0..(num_junctions - 1)
               /\ RegSetVehicleCount(junction_id, lane, count)) =>
                  /\ \A j \in DOMAIN junctions :
                         junctions'[j].controller = junctions[j].controller
                  /\ DOMAIN junctions' = DOMAIN junctions
                  /\ <<vehicles', current_lane', cycle_counter'>> =
                         <<vehicles, current_lane, cycle_counter>>
       /\ \A junction_id \in JunctionIdInputs, lane \in RegLaneInputs,
             count \in RegCountInputs :
              (/\ junction_id \notin 0..(num_junctions - 1)
               /\ RegSetVehicleCount(junction_id, lane, count)) =>
                  /\ junctions' = junctions
                  /\ <<vehicles', current_lane', cycle_counter'>> =
                         <<vehicles, current_lane, cycle_counter>>
       /\ \A junction_id \in JunctionIdInputs :
              (/\ junction_id \notin 0..(num_junctions - 1)
               /\ RegAdvanceSignal(<<junction_id>>)) =>
                  /\ junctions' = junctions
                  /\ <<vehicles', current_lane', cycle_counter'>> =
                         <<vehicles, current_lane, cycle_counter>>]_vars

(* A registry call has just returned with the cached totals of junctions 0  *)
(* and 1 both out of date: a call with a known id refreshes the total of    *)
(* its junction, so the call carried an unknown id, and it left the loaded  *)
(* stand-alone controller and the stale totals as they were.                *)
C13_Witness ==
    /\ lastOp = "registry.set_vehicle_count"
    /\ junctions[0].total_vehicles = 81
    /\ junctions[1].total_vehicles = 19
    /\ TotalVehicles(junctions[0].controller.vehicles) = 0
    /\ TotalVehicles(junctions[1].controller.vehicles) = 0
    /\ vehicles["North"] = 2

(* C17: a registry constructed with the integer n holds max(2, min(n, 4))   *)
(* junctions, numbered from 0; straight after construction every junction   *)
(* is active with a fresh controller (all counts 0, North green, cycle 0);  *)
(* and the number of junctions is the same in every later state.            *)
C17_RegistrySize ==
    LET expected == IF ctorArg < 2 THEN 2 ELSE IF ctorArg > 4 THEN 4 ELSE ctorArg
    IN /\ num_junctions = expected
       /\ DOMAIN junctions = 0..(expected - 1)
       /\ lastOp = "__init__" =>
              \A j \in DOMAIN junctions :
                  /\ junctions[j].active
                  /\ \A lane \in {"North", "South", "East", "West"} :
                         junctions[j].controller.vehicles[lane] = 0
                  /\ junctions[j].controller.current_lane = "North"
                  /\ junctions[j].controller.cycle_counter = 0
                  /\ get_all_junctions_state[j].signal_state["North"].signal = "GREEN"

C17_Witness ==
    /\ ctorArg = 6
    /\ Cardinality(DOMAIN junctions) = 4
    /\ lastOp = "registry.toggle_junction"
    /\ ~junctions[0].active
    /\ junctions[1].total_vehicles = 81
    /\ junctions[3].controller.cycle_counter = 1

(* C18: on the registry, advance_signal(id) with a known id, 0 included,    *)
(* moves that junction one place in the rotation and adds 1 to its cycle    *)
(* counter, and leaves the controller of every other junction as it was;    *)
(* advance_signal() without an id does that to every junction.              *)
C18_AdvanceOneOrAll ==
    [][LET successor == [North |-> "East", East |-> "South",
                         South |-> "West", West |-> "North"]
           stepped(j) ==
               /\ junctions'[j].controller.current_lane =
                      successor[junctions[j].controller.current_lane]
               /\ junctions'[j].controller.cycle_counter =
                      junctions[j].controller.cycle_counter + 1
               /\ junctions'[j].controller.vehicles =
                      junctions[j].controller.vehicles
       IN /\ \A junction_id \in JunctionIdInputs :
                 (/\ junction_id \in 0..(num_junctions - 1)
                  /\ RegAdvanceSignal(<<junction_id>>)) =>
                     /\ stepped(junction_id)
                     /\ \A k \in DOMAIN junctions \ {junction_id} :
                            junctions'[k].controller = junctions[k].controller
          /\ RegAdvanceSignal(<<>>) =>
                 \A k \in 0..(num_junctions - 1) : stepped(k)]_vars

C18_Witness ==
    /\ lastOp = "registry.advance_signal"
    /\ junctions[0].controller.current_lane = "East"
    /\ junctions[0].controller.cycle_counter = 1
    /\ junctions[0].controller.vehicles["North"] = 20
    /\ \A k \in DOMAIN junctions \ {0} :
           /\ junctions[k].controller.current_lane = "North"
           /\ junctions[k].controller.cycle_counter = 0
    /\ junctions[1].controller.vehicles["North"] = 80
    /\ num_junctions = 3

(* C19: the report of get_system_health leaves inactive junctions out:      *)
(* total_vehicles is the sum of the totals of the active junctions, the     *)
(* most congested junction is an active one with the largest total among    *)
(* the active ones, and active_junctions counts the active junctions.       *)
C19_InactiveExcluded ==
    LET active == {j \in DOMAIN junctions : junctions[j].active}
        health == get_system_health
    IN lastOp = "registry.get_system_health" =>
           /\ health.total_vehicles =
                  SumOver([j \in active |-> junctions[j].total_vehicles], active)
           /\ health.active_junctions = Cardinality(active)
           /\ active # {} =>
                  /\ health.most_congested_junction \in active
                  /\ \A k \in active :
                         junctions[k].total_vehicles <=
                             health.max_vehicles_any_junction

(* C20: get_coordination_recommendations lists, in junction id order, one   *)
(* entry for each junction whose reported total_vehicles is above 80        *)
(* (type congestion, severity high) or below 20 (type underutilized,        *)
(* severity low) and nothing for a junction with a total from 20 to 80; a   *)
(* freshly constructed registry gets one low entry per junction.            *)
C20_Recommendations ==
    LET recs == get_coordination_recommendations
        total(j) == get_all_junctions_state[j].total_vehicles
        flagged == {j \in DOMAIN junctions : total(j) > 80 \/ total(j) < 20}
        rank(j) == Cardinality({k \in flagged : k < j}) + 1
    IN /\ Len(recs) = Cardinality(flagged)
       /\ \A j \in flagged :
              /\ recs[rank(j)].junction = junctions[j].name
              /\ total(j) > 80 =>
                     /\ recs[rank(j)].severity = "high"
                     /\ recs[rank(j)].type = "congestion"
              /\ total(j) < 20 =>
                     /\ recs[rank(j)].severity = "low"
                     /\ recs[rank(j)].type = "underutilized"
       /\ lastOp = "__init__" =>
              /\ Len(recs) = num_junctions
              /\ \A i \in 1..Len(recs) : recs[i].severity = "low"

(* Junction 0 stands exactly on the upper threshold and junction 1 exactly  *)
(* on the lower one, so neither is listed; junction 2 is empty and is.      *)
C20_Witness ==
    /\ lastOp = "registry.get_coordination_recommendations"
    /\ junctions[0].total_vehicles = 80
    /\ junctions[1].total_vehicles = 20
    /\ num_junctions = 3
    /\ Len(get_coordination_recommendations) = 1
    /\ get_coordination_recommendations[1].junction = "Uptown"

(* C21 as stated: the system_efficiency that get_system_health reports is   *)
(* exactly max(0, 100 - (total / (num_junctions * 25)) * 50), total being   *)
(* the sum of the junctions' reported totals.  Both sides are fractions     *)
(* and are compared by cross-multiplication.                                *)
C21_EfficiencyExact ==
    LET health == get_system_health
        total == SumOver([j \in DOMAIN junctions |->
                             get_all_junctions_state[j].total_vehicles],
                         DOMAIN junctions)
        exactNum == IF 100 * num_junctions - 2 * total > 0
                    THEN 100 * num_junctions - 2 * total ELSE 0
    IN lastOp = "registry.get_system_health" =>
           health.system_efficiency[1] * num_junctions =
               exactNum * health.system_efficiency[2]

(* C21 as the code has it: the reported system_efficiency is that value     *)
(* rounded to one decimal place (a whole number of tenths, at most half a   *)
(* tenth away from it); it is 100 when the total is 0, 0 whenever the       *)
(* total is at least 50 * num_junctions, and always within [0, 100].        *)
C21_EfficiencyRounded ==
    LET health == get_system_health
        tenths == health.system_efficiency[1]
        total == SumOver([j \in DOMAIN junctions |->
                             get_all_junctions_state[j].total_vehicles],
                         DOMAIN junctions)
        exactNum == IF 100 * num_junctions - 2 * total > 0
                    THEN 100 * num_junctions - 2 * total ELSE 0
        diff == 10 * exactNum - tenths * num_junctions
    IN lastOp = "registry.get_system_health" =>
           /\ health.system_efficiency[2] = 10
           /\ health.total_vehicles = total
           /\ 2 * diff <= num_junctions /\ 2 * diff >= -num_junctions
           /\ total = 0 => tenths = 1000
           /\ total >= 50 * num_junctions => tenths = 0
           /\ tenths >= 0 /\ tenths <= 1000

(* Three junctions holding 20 vehicles: 100 - 40/3 = 86.66... is reported   *)
(* as 86.7.                                                                 *)
C21_Witness ==
    /\ lastOp = "registry.get_system_health"
    /\ num_junctions = 3
    /\ junctions[0].total_vehicles = 20
    /\ junctions[1].total_vehicles = 0
    /\ get_system_health.system_efficiency = <<867, 10>>

(* C22: calculate_congestion_level(v) is Low below 10, Medium from 10 to    *)
(* 30 inclusive and High above 30, for every integer v; and in the result   *)
(* of get_signal_state the congestion of each lane is that classification   *)
(* of the lane's vehicle count.                                             *)
C22_Congestion ==
    /\ \A v \in CongestionInputs :
           /\ v < 10 => calculate_congestion_level(v) = "Low"
           /\ (10 <= v /\ v <= 30) => calculate_congestion_level(v) = "Medium"
           /\ v > 30 => calculate_congestion_level(v) = "High"
    /\ \A lane \in {"North", "South", "East", "West"} :
           signal_state[lane].congestion =
               IF vehicles[lane] < 10 THEN "Low"
               ELSE IF vehicles[lane] <= 30 THEN "Medium"
               ELSE "High"

(* The four lanes stand on both sides of both thresholds.                   *)
C22_Witness ==
    /\ lastOp = "get_signal_state"
    /\ vehicles["North"] = 9 /\ signal_state["North"].congestion = "Low"
    /\ vehicles["East"] = 10 /\ signal_state["East"].congestion = "Medium"
    /\ vehicles["South"] = 30 /\ signal_state["South"].congestion = "Medium"
    /\ vehicles["West"] = 31 /\ signal_state["West"].congestion = "High"

(* C23: get_most_congested_lane returns a lane together with its count,     *)
(* that count is the largest of the four, and no lane standing before the   *)
(* returned one in the order North, South, East, West has the same count;   *)
(* with four equal counts the lane is North.  get_statistics reports the    *)
(* same pair.                                                               *)
C23_MostCongested ==
    LET place == [North |-> 1, South |-> 2, East |-> 3, West |-> 4]
        most_congested == get_most_congested_lane(vehicles)
    IN /\ most_congested[1] \in {"North", "South", "East", "West"}
       /\ most_congested[2] = vehicles[most_congested[1]]
       /\ \A lane \in {"North", "South", "East", "West"} :
              /\ vehicles[lane] <= most_congested[2]
              /\ place[lane] < place[most_congested[1]] =>
                     vehicles[lane] < most_congested[2]
       /\ (\A lane \in {"North", "South", "East", "West"} :
               vehicles[lane] = vehicles["North"]) => most_congested[1] = "North"
       /\ statistics.most_congested_lane = most_congested[1]
       /\ statistics.max_vehicles = most_congested[2]

(* South and East share the maximum: South, the earlier key, is returned.   *)
C23_Witness ==
    /\ lastOp = "get_statistics"
    /\ vehicles["North"] = 30
    /\ vehicles["South"] = 31
    /\ vehicles["East"] = 31
    /\ vehicles["West"] = 0
    /\ get_most_congested_lane(vehicles) = <<"South", 31>>

(* C24: get_signal_state, get_statistics, get_emergency_status,             *)
(* get_all_junctions_state, get_system_health and                           *)
(* get_coordination_recommendations are pure reads: a call of any of them   *)
(* changes no field of the controller, of the override or of the registry,  *)
(* and what each of them returns after the call is what it returned         *)
(* before it.                                                               *)
C24_PureReads ==
    [][/\ lastOp' \in {"get_signal_state", "get_statistics",
                       "get_emergency_status",
                       "registry.get_all_junctions_state",
                       "registry.get_system_health",
                       "registry.get_coordination_recommendations"} =>
              /\ vehicles' = vehicles
              /\ current_lane' = current_lane
              /\ cycle_counter' = cycle_counter
              /\ emergency_active' = emergency_active
              /\ emergency_lane' = emergency_lane
              /\ emergency_type' = emergency_type
              /\ emergency_start_time' = emergency_start_time
              /\ override_duration' = override_duration
              /\ num_junctions' = num_junctions
              /\ junctions' = junctions
              /\ coordination_mode' = coordination_mode
       /\ lastOp' = "get_signal_state" => signal_state' = signal_state
       /\ lastOp' = "get_statistics" => statistics' = statistics
       /\ lastOp' = "get_emergency_status" =>
              get_emergency_status' = get_emergency_status
       /\ lastOp' = "registry.get_all_junctions_state" =>
              get_all_junctions_state' = get_all_junctions_state
       /\ lastOp' = "registry.get_system_health" =>
              get_system_health' = get_system_health
       /\ lastOp' = "registry.get_coordination_recommendations" =>
              get_coordination_recommendations' =
                  get_coordination_recommendations]_vars

(* get_system_health has just been called on a registry whose junction 0    *)
(* carries a total of 81 for an emptied controller, next to a loaded        *)
(* controller with an active override.                                      *)
C24_Witness ==
    /\ lastOp = "registry.get_system_health"
    /\ junctions[0].total_vehicles = 81
    /\ TotalVehicles(junctions[0].controller.vehicles) = 0
    /\ ~junctions[0].active
    /\ emergency_active
    /\ vehicles["East"] = 2
    /\ current_lane = "East"

(* C25: a successful detect_emergency_vehicle(lane, type) makes the         *)
(* override active with that lane and type, elapsed time 0 and a duration   *)
(* of 30 for an ambulance, 40 for a fire truck, 25 for a police vehicle,    *)
(* and leaves the controller's current_lane, cycle_counter and counts       *)
(* alone; of the override's methods only override_signal_for_emergency      *)
(* ever changes a field of the controller.                                  *)
C25_DetectSetsOverrideOnly ==
    [][/\ \A lane \in LaneInputs,
             vehicle_type \in {"ambulance", "fire_truck", "police"} :
              DetectEmergencyVehicle(lane, vehicle_type) =>
                  /\ ret' = "True"
                  /\ emergency_active'
                  /\ emergency_lane' = lane
                  /\ emergency_type' = vehicle_type
                  /\ emergency_start_time' = <<0>>
                  /\ override_duration' =
                         [ambulance |-> 30, fire_truck |-> 40,
                          police |-> 25][vehicle_type]
                  /\ vehicles' = vehicles
                  /\ current_lane' = current_lane
                  /\ cycle_counter' = cycle_counter
       /\ lastOp' \in {"detect_emergency_vehicle", "update_emergency_timer",
                       "clear_emergency", "get_emergency_status"} =>
              /\ vehicles' = vehicles
              /\ current_lane' = current_lane
              /\ cycle_counter' = cycle_counter]_vars

(* A fire truck has just been detected on East while the controller, two    *)
(* advances into its rotation, shows South: the controller is untouched.    *)
C25_Witness ==
    /\ lastOp = "detect_emergency_vehicle"
    /\ ret = "True"
    /\ emergency_active
    /\ emergency_lane = "East"
    /\ emergency_type = "fire_truck"
    /\ emergency_start_time = <<0>>
    /\ override_duration = 40
    /\ current_lane = "South"
    /\ cycle_counter = 2
    /\ vehicles["North"] = 2

(* C29: a successful detect_emergency_vehicle made while an override is     *)
(* active replaces it whatever the two priorities are: the lane, the type   *)
(* and the duration are those of the new detection and the elapsed time is  *)
(* 0 again.                                                                 *)
C29_DetectionReplaces ==
    [][\A lane \in LaneInputs,
          vehicle_type \in {"ambulance", "fire_truck", "police"} :
           (emergency_active /\ ReplaceDetect(lane, vehicle_type)) =>
               /\ ret' = "True"
               /\ emergency_active'
               /\ emergency_lane' = lane
               /\ emergency_type' = vehicle_type
               /\ override_duration' =
                      [ambulance |-> 30, fire_truck |-> 40,
                       police |-> 25][vehicle_type]
               /\ emergency_start_time' = <<0>>]_vars

(* A police detection (priority 3) on West has just replaced an ambulance   *)
(* override (priority 1).                                                   *)
C29_Witness ==
    /\ lastOp = "detect_emergency_vehicle"
    /\ replacedType = "ambulance"
    /\ EMERGENCY_TYPES["police"].priority > EMERGENCY_TYPES[replacedType].priority
    /\ emergency_active
    /\ emergency_type = "police"
    /\ emergency_lane = "West"
    /\ override_duration = 25
    /\ emergency_start_time = <<0>>

(* C27: in every state of the registry the total_vehicles that              *)
(* get_all_junctions_state reports for a junction is the sum of the four    *)
(* lane counts of that junction's controller, and it is 0 for every         *)
(* junction once reset_all has returned.                                    *)
C27_TotalsAgree ==
    /\ \A j \in DOMAIN junctions :
           get_all_junctions_state[j].total_vehicles =
               junctions[j].controller.vehicles["North"]
                   + junctions[j].controller.vehicles["South"]
                   + junctions[j].controller.vehicles["East"]
                   + junctions[j].controller.vehicles["West"]
    /\ lastOp = "registry.reset_all" =>
           \A j \in DOMAIN junctions :
               get_all_junctions_state[j].total_vehicles = 0

(* C26: once an override has been applied on a lane L and cleared, the      *)
(* lane that was green before it is not restored: the next advance_signal   *)
(* makes the successor of L in the rotation green, and the four advances    *)
(* from there make each of the four lanes green once.  (overridden with an  *)
(* empty greenHist says that an override was applied and that no advance    *)
(* has gone through since.)                                                 *)
C26_RotationResumes ==
    [][AdvanceSignal =>
           /\ (overridden /\ ~emergency_active /\ greenHist = <<>>) =>
                  /\ ret' # "ValueError"
                  /\ current_lane \in {"North", "East", "South", "West"}
                  /\ current_lane' =
                         [North |-> "East", East |-> "South",
                          South |-> "West", West |-> "North"][current_lane]
                  /\ cycle_counter' = cycle_counter + 1
           /\ (overridden /\ Len(greenHist') = 4) =>
                  {greenHist'[i] : i \in 1..4} =
                      {"North", "East", "South", "West"}]_vars

(* C28: no lane starves.  In every run in which advance_signal is called    *)
(* again and again for ever, each of the four lanes is green again and      *)
(* again for ever, whatever detections and overrides come in between.       *)
C28_NoStarvation ==
    ([]<><<AdvanceCall>>_vars) =>
        \A lane \in {"North", "East", "South", "West"} :
            []<>(signal_state[lane].signal = "GREEN")

----------------------------------------------------------------------------
(* Two advance_signal calls on one controller, run by two threads with no   *)
(* lock (logic.py has none).  Each call is cut where the interpreter can    *)
(* switch threads: get_next_lane reads current_lane and returns the         *)
(* successor; advance_signal stores it; cycle_counter += 1 loads the        *)
(* counter and then stores the incremented value.                           *)

AllIdle == \A t \in Threads : pc[t] = "idle"
AllDone == \A t \in Threads : pc[t] \in {"done", "raised"}

Fork ==
    /\ AllIdle
    /\ cycle_counter < MaxCycle
    /\ pc' = [t \in Threads |-> "start"]
    /\ start_state' = <<current_lane, cycle_counter>>
    /\ UNCHANGED <<next_lane, counter_read, lastOp, ret>>
    /\ UNCHANGED ctlVars /\ UNCHANGED emVars /\ UNCHANGED histVars
    /\ UNCHANGED tickVars /\ UNCHANGED regVars /\ UNCHANGED ghostVars

ThreadGetNextLane(t) ==
    /\ pc[t] = "start"
    /\ lastOp' = "advance_signal"
    /\ IF InSeq(lane_order, current_lane)
       THEN /\ next_lane' = [next_lane EXCEPT ![t] = get_next_lane(current_lane)]
            /\ pc' = [pc EXCEPT ![t] = "store_lane"]
            /\ UNCHANGED ret
       ELSE /\ pc' = [pc EXCEPT ![t] = "raised"]
            /\ ret' = "ValueError"
            /\ UNCHANGED next_lane
    /\ UNCHANGED <<counter_read, start_state>>
    /\ UNCHANGED ctlVars /\ UNCHANGED emVars /\ UNCHANGED histVars
    /\ UNCHANGED tickVars /\ UNCHANGED regVars /\ UNCHANGED ghostVars

ThreadStoreLane(t) ==
    /\ pc[t] = "store_lane"
    /\ lastOp' = "advance_signal"
    /\ current_lane' = next_lane[t]
    /\ pc' = [pc EXCEPT ![t] = "load_counter"]
    /\ UNCHANGED <<vehicles, cycle_counter, ret>>
    /\ UNCHANGED <<next_lane, counter_read, start_state>>
    /\ UNCHANGED emVars /\ UNCHANGED histVars
    /\ UNCHANGED tickVars /\ UNCHANGED regVars /\ UNCHANGED ghostVars

ThreadLoadCounter(t) ==
    /\ pc[t] = "load_counter"
    /\ lastOp' = "advance_signal"
    /\ counter_read' = [counter_read EXCEPT ![t] = cycle_counter]
    /\ pc' = [pc EXCEPT ![t] = "store_counter"]
    /\ UNCHANGED <<next_lane, start_state, ret>>
    /\ UNCHANGED ctlVars /\ UNCHANGED emVars /\ UNCHANGED histVars
    /\ UNCHANGED tickVars /\ UNCHANGED regVars /\ UNCHANGED ghostVars

ThreadStoreCounter(t) ==
    /\ pc[t] = "store_counter"
    /\ lastOp' = "advance_signal"
    /\ cycle_counter' = counter_read[t] + 1
    /\ pc' = [pc EXCEPT ![t] = "done"]
    /\ ret' = "state"
    /\ UNCHANGED <<vehicles, current_lane>>
    /\ UNCHANGED <<next_lane, counter_read, start_state>>
    /\ UNCHANGED emVars /\ UNCHANGED histVars
    /\ UNCHANGED tickVars /\ UNCHANGED regVars /\ UNCHANGED ghostVars

Join ==
    /\ AllDone
    /\ pc' = [t \in Threads |-> "idle"]
    /\ next_lane' = [t \in Threads |-> NoneVal]
    /\ counter_read' = [t \in Threads |-> 0]
    /\ start_state' = <<>>
    /\ UNCHANGED <<lastOp, ret>>
    /\ UNCHANGED ctlVars /\ UNCHANGED emVars /\ UNCHANGED histVars
    /\ UNCHANGED tickVars /\ UNCHANGED regVars /\ UNCHANGED ghostVars

SerialAdvance == AllIdle /\ AdvanceSignal

NextRace ==
    \/ SerialAdvance
    \/ Fork
    \/ \E t \in Threads : ThreadGetNextLane(t)
    \/ \E t \in Threads : ThreadStoreLane(t)
    \/ \E t \in Threads : ThreadLoadCounter(t)
    \/ \E t \in Threads : ThreadStoreCounter(t)
    \/ Join

SpecRace == Init /\ [][NextRace]_vars

(* C30: when two advance_signal calls on one controller have both run to    *)
(* the end with their reads and writes interleaved, the controller is where *)
(* two calls one after the other would have left it: current_lane two       *)
(* places on in the rotation, cycle_counter greater by two.                 *)
C30_SerialOutcome ==
    (\A t \in Threads : pc[t] = "done") =>
        /\ current_lane = get_next_lane(get_next_lane(start_state[1]))
        /\ cycle_counter = start_state[2] + 2

============================================================================
